---- MODULE Spec2Model ----
(***************************************************************************)
(* Model of dremio/wrapper.py (class DremioWrapper).                       *)
(*                                                                         *)
(* The client is single threaded.  Its state is the Python call stack      *)
(* (one frame per method invocation, with the method's local variables)    *)
(* and the value a finished invocation hands to its caller.  One step of   *)
(* the model is one HTTP round trip together with the code that runs up    *)
(* to the next round trip; the server's answer is chosen freely.  The      *)
(* remote catalog and the remote wiki versions are the server's state.     *)
(* Strings are sequences of one-character strings.                         *)
(***************************************************************************)
EXTENDS Integers, Sequences, FiniteSets, TLC

\* ------------------------------------------------------------------ bounds
\* largest wiki version the server hands out
MaxVersion == 1

\* ------------------------------------------------------ program constants
MaxTriesStatus == 300
MaxTriesLookup == 10

\* --------------------------------------------------------------- strings
\* Python None, where a string is expected
None == <<"None">>

COMPLETED == <<"C","O","M","P","L","E","T","E","D">>
CANCELED  == <<"C","A","N","C","E","L","E","D">>
FAILED    == <<"F","A","I","L","E","D">>
RUNNING   == <<"R","U","N","N","I","N","G">>

AlreadyExists == <<"a","l","r","e","a","d","y"," ","e","x","i","s","t","s">>
Removed == <<"r","e","m","o","v","e","d">>
Ok == <<"o","k">>

\* response.text of a response the client turns into an exception
ResponseText == <<"b","o","d","y">>

\* Python truthiness of a value that is None or a str
Truthy(x) == x /= None /\ x /= <<>>

\* Python `sub in s` for strings
Contains(sub, s) ==
    \E i \in 0..(Len(s) - Len(sub)) : SubSeq(s, i + 1, i + Len(sub)) = sub

\* str.replace(old, new) for a one-character old
RECURSIVE ReplaceChar(_, _, _)
ReplaceChar(s, old, new) ==
    IF s = <<>> THEN <<>>
    ELSE (IF Head(s) = old THEN new ELSE <<Head(s)>>) \o ReplaceChar(Tail(s), old, new)

\* path.replace('.', '/').replace('"', '')
NormalizePath(path) == ReplaceChar(ReplaceChar(path, ".", <<"/">>), "\"", <<>>)

\* str.split(sep) for a one-character sep: the list of segments
RECURSIVE SplitAcc(_, _, _)
SplitAcc(s, sep, cur) ==
    IF s = <<>> THEN <<cur>>
    ELSE IF Head(s) = sep THEN <<cur>> \o SplitAcc(Tail(s), sep, <<>>)
    ELSE SplitAcc(Tail(s), sep, Append(cur, Head(s)))

Split(s, sep) == SplitAcc(s, sep, <<>>)

\* urllib.parse.quote(s, safe=''): every character outside the unreserved
\* set is replaced by its percent escape
QuoteChar(c) ==
    CASE c = "/"  -> <<"%","2","F">>
      [] c = ":"  -> <<"%","3","A">>
      [] c = "%"  -> <<"%","2","5">>
      [] c = " "  -> <<"%","2","0">>
      [] OTHER    -> <<c>>

RECURSIVE Quote(_)
Quote(s) == IF s = <<>> THEN <<>> ELSE QuoteChar(Head(s)) \o Quote(Tail(s))

\* what the server reads back from a percent-encoded path segment
RECURSIVE Unquote(_)
Unquote(s) ==
    IF s = <<>> THEN <<>>
    ELSE IF Head(s) = "%" /\ Len(s) >= 3
         THEN (CASE SubSeq(s, 2, 3) = <<"2","F">> -> <<"/">>
                 [] SubSeq(s, 2, 3) = <<"3","A">> -> <<":">>
                 [] SubSeq(s, 2, 3) = <<"2","5">> -> <<"%">>
                 [] SubSeq(s, 2, 3) = <<"2","0">> -> <<" ">>
                 [] OTHER -> <<"?">>) \o Unquote(SubSeq(s, 4, Len(s)))
         ELSE <<Head(s)>> \o Unquote(Tail(s))

\* 'Authorization': f'_dremio{token}'
AuthHeader(token) == <<"_dremio">> \o token

\* self._url_refresh_pds.replace('@@@@@', element_id_quoted), host left out
UrlRefresh(element_id_quoted) == <<"/api/v3/catalog/">> \o element_id_quoted

\* ------------------------------------------------------------ the caller
\* values the calling script may pass and the server may answer with
Tokens == {<<"t","1">>}
JobIds == {<<"j">>, None}
JobStates == {RUNNING, COMPLETED, CANCELED, FAILED}
PathArgs == {<<"s",".","t">>, <<"\"","s","\"",".","t">>}
ElementIds == {<<"d",":","/","s","/","t">>, <<"x","1">>}
SqlArgs == {<<"q">>}
VdsPathArgs == {<<"\"","s","\"",".","t">>}
\* the elements whose wiki the model follows; for any other element the
\* server answers freely and nothing is known of what it stores
WikiElements == {<<"x","1">>}
DocArgs == {None, <<>>, <<"m","d">>}
Elements == {[kind |-> "space", name |-> <<"s">>],
             [kind |-> "folder", name |-> <<"s","/","f">>]}
\* the id the server gives a space or folder
IdOf(e) == IF e.kind = "space" THEN <<"i","s">> ELSE <<"i","f">>

\* ------------------------------------------------------------- exceptions
DremioException == "DremioException"
ConnectionError == "ConnectionError"
TypeError == "TypeError"

NoRet == [kind |-> "none"]
Value(m, v) == [kind |-> "value", from |-> m, val |-> v]
\* by: the method whose raise statement (or whose requests call) threw it
Raise(m, exc, msg) == [kind |-> "raise", from |-> m, by |-> m, exc |-> exc, msg |-> msg]
\* mutation: the caller swallows the exception
Through_Swallows(m, r) == [kind |-> "value", from |-> m, val |-> <<"None">>]

\* an exception passing through method m unchanged
Through(m, r) == [r EXCEPT !.from = m]

\* HTTP status codes the client tests for
HttpOk == 200
HttpNoContent == 204
HttpConflict == 409
\* a status the client has no branch for; 0 stands for "no response":
\* the requests call itself raises ConnectionError
HttpOther == 500
NoResponse == 0

\* ------------------------------------------------------------------ state
VARIABLES
    stack,      \* the call stack: frames [m, pc, cid, v], innermost last
    ret,        \* what the invocation that just ended hands to its caller
    catalog,    \* server: the spaces and folders that exist
    wiki,       \* server: wiki version of each followed element, {} for none
    g           \* observation of the current public call (requests, waits)

vars == <<stack, ret, catalog, wiki, g>>

Top == stack[Len(stack)]
Pop == SubSeq(stack, 1, Len(stack) - 1)
SetTop(f) == [stack EXCEPT ![Len(stack)] = f]
Running(m, pc) == stack /= <<>> /\ Top.m = m /\ Top.pc = pc
Idle == stack = <<>>

\* observation of one get_run_status invocation
NoPolls == [polls |-> 0, sleeps |-> 0, firstTermAt |-> 0, firstTermState |-> None,
            lastStatus |-> NoResponse]
\* observation of one get_element_id invocation
NoLookups == [lookups |-> 0, naps |-> 0, firstIdAt |-> 0, firstId |-> None,
              answered |-> 0, path |-> <<>>]
\* a request that was not sent
NotSent == [sent |-> FALSE]

InitG == [op |-> "none",
          calls |-> <<>>,          \* method invocations, in order
          requests |-> <<>>,       \* kind of the latest HTTP request
          logins |-> 0,            \* login requests of the current public call
          lastLogin |-> [tok |-> None, cid |-> 0,
                         response |-> [status |-> NoResponse, token |-> None],
                         outcome |-> NoRet],
          lastAuth |-> [hdr |-> <<>>, cid |-> 0, kind |-> "none"],
          authSince |-> 0,         \* authenticated requests since the last login
          status |-> NoPolls,
          lookup |-> NoLookups,
          lookupRets |-> <<>>,     \* what each finished get_element_id returned
          deletes |-> <<>>,        \* ids of the DELETE requests sent
          caught |-> <<>>,         \* exceptions caught and not raised again
          lookupsAll |-> 0,        \* lookup requests of the current public call
          refreshes |-> 0,         \* refresh POSTs of the current public call
          create |-> NotSent,      \* the create POST and its answer
          docGet |-> NotSent,      \* the wiki GET and its answer
          docPost |-> NotSent,     \* the wiki POST
          sql |-> NotSent,         \* the SQL POST and what came of the job
          refresh |-> NotSent]     \* the refresh POST

Init ==
    /\ stack = <<>>
    /\ ret = NoRet
    /\ catalog = {}
    /\ wiki = [e \in WikiElements |-> {}]
    /\ g = InitG

\* a method is entered: a new frame on the stack
Frame(m, pc, cid, v) == [m |-> m, pc |-> pc, cid |-> cid, v |-> v]
Called(m, arg) == Append(g.calls, [m |-> m, arg |-> arg])

\* an HTTP request that carries the Authorization header
Authenticated(kind, token, cid) ==
    [g EXCEPT !.lastAuth = [hdr |-> AuthHeader(token), cid |-> cid, kind |-> kind],
              !.authSince = @ + 1,
              !.requests = <<kind>>]

\* ------------------------------------------------------------- get_token
LoginResponses ==
    {[status |-> NoResponse, token |-> None], [status |-> HttpOther, token |-> None]}
    \cup [status : {HttpOther}, token : Tokens]
    \cup [status : {HttpOk}, token : Tokens \cup {None, <<>>}]

\* mutation: a failed login yields no token instead of an exception
get_token_NoRaise(response) ==
    Value("get_token", IF response.status = HttpOk THEN response.token ELSE None)

\* mutation: the status of the answer is not tested
get_token_IgnoresStatus(response) ==
    IF Truthy(response.token) THEN Value("get_token", response.token)
    ELSE Raise("get_token", DremioException, ResponseText)

\* mutation: `if token is not None:` in place of `if token:`
get_token_NotNone(response) ==
    LET token == IF response.status = HttpOk THEN response.token ELSE None
    IN  IF token /= None THEN Value("get_token", token)
        ELSE Raise("get_token", DremioException, ResponseText)

get_token(response) ==
    LET token == IF response.status = HttpOk THEN response.token ELSE None
    IN  IF Truthy(token) THEN Value("get_token", token)
        ELSE Raise("get_token", DremioException, ResponseText)

\* where a method goes on after its token = self.get_token()
AfterLogin(m) ==
    CASE m = "create_element" -> "post"
      [] m = "delete_element" -> "delete"
      [] m = "get_run_status" -> "poll"
      [] m = "run_sql" -> "post"
      [] m = "get_element_id" -> "lookup"
      [] m = "create_documentation" -> "get"
      [] m = "refresh_parquet_pds" -> "post"

\* token = self.get_token() of the running method
Login ==
    /\ stack /= <<>> /\ Top.pc = "login"
    /\ \E response \in LoginResponses :
        LET r == IF response.status = NoResponse
                 THEN Raise("get_token", ConnectionError, <<>>)
                 ELSE get_token(response)
        IN  /\ g' = [g EXCEPT !.logins = @ + 1,
                              !.authSince = 0,
                              !.requests = <<"login">>,
                              !.lastLogin = [tok |-> IF r.kind = "value" THEN r.val ELSE None,
                                             cid |-> Top.cid,
                                             response |-> response,
                                             outcome |-> r]]
            /\ IF r.kind = "raise"
               THEN stack' = Pop /\ ret' = Through(Top.m, r)
               ELSE /\ stack' = SetTop([Top EXCEPT !.pc = AfterLogin(Top.m),
                                                   !.v.token = r.val])
                    /\ ret' = NoRet
    /\ UNCHANGED <<catalog, wiki>>

\* -------------------------------------------------------- get_run_status
StatusResponses ==
    {[status |-> NoResponse, jobState |-> None], [status |-> HttpOther, jobState |-> None]}
    \cup [status : {HttpOk}, jobState : JobStates \cup {None}]

\* result in ['COMPLETED', 'CANCELED', 'FAILED']
IsTerminal(result) == result \in {COMPLETED, CANCELED, FAILED}

\* mutation: one pass too many
StatusLoop_OneMore(result, max_tries) == ~IsTerminal(result) /\ max_tries >= 0

\* while result not in [...] and max_tries > 0
StatusLoop(result, max_tries) == ~IsTerminal(result) /\ max_tries > 0

\* mutation: sleeps after every poll
StatusSleeps_Always(result) == TRUE

\* if result not in [...]: time.sleep(1)
StatusSleeps(result) == ~IsTerminal(result)

\* if result: return result / else: raise DremioException(response.text)
StatusOutcome(result) ==
    IF Truthy(result) THEN Value("get_run_status", result)
    ELSE Raise("get_run_status", DremioException, ResponseText)

get_run_status_locals(id) ==
    [id |-> id, token |-> None, result |-> None, max_tries |-> MaxTriesStatus]

\* one pass of the polling loop, and the return when the loop ends
PollStatus ==
    /\ Running("get_run_status", "poll")
    /\ UNCHANGED <<catalog, wiki>>
    /\ IF Top.v.id = None
       THEN \* self._url_jobstatus + id with id None
            /\ stack' = Pop
            /\ ret' = Raise("get_run_status", TypeError, <<>>)
            /\ g' = g
       ELSE \E response \in StatusResponses :
            LET sent == Authenticated("status", Top.v.token, Top.cid)
                n == g.status.polls + 1
                max_tries == Top.v.max_tries - 1
                result == IF response.status = HttpOk THEN response.jobState
                          ELSE Top.v.result
                term == response.status = HttpOk /\ IsTerminal(response.jobState)
                seen == [sent EXCEPT
                           !.status.polls = n,
                           !.status.lastStatus = response.status,
                           !.status.firstTermAt =
                               IF @ = 0 /\ term THEN n ELSE @,
                           !.status.firstTermState =
                               IF g.status.firstTermAt = 0 /\ term
                               THEN response.jobState ELSE @]
            IN  IF response.status = NoResponse
                THEN /\ stack' = Pop
                     /\ ret' = Raise("get_run_status", ConnectionError, <<>>)
                     /\ g' = [sent EXCEPT !.status.polls = n]
                ELSE /\ g' = [seen EXCEPT !.status.sleeps =
                                 IF StatusSleeps(result) THEN @ + 1 ELSE @]
                     /\ IF StatusLoop(result, max_tries)
                        THEN /\ stack' = SetTop([Top EXCEPT !.v.result = result,
                                                            !.v.max_tries = max_tries])
                             /\ ret' = NoRet
                        ELSE /\ stack' = Pop
                             /\ ret' = StatusOutcome(result)

\* ---------------------------------------------------------------- run_sql
SqlResponses ==
    {[status |-> NoResponse, id |-> None], [status |-> HttpOther, id |-> None]}
    \cup [status : {HttpOk}, id : JobIds]

run_sql_locals(command) == [command |-> command, token |-> None]

\* mutation: a FAILED job is raised instead of returned
SqlOutcome_RaisesFailed(result) ==
    IF Truthy(result) /\ result /= FAILED THEN Value("run_sql", result)
    ELSE Raise("run_sql", DremioException, ResponseText)

\* if result: return result / else: raise DremioException(response.text)
SqlOutcome(result) ==
    IF Truthy(result) THEN Value("run_sql", result)
    ELSE Raise("run_sql", DremioException, ResponseText)

\* requests.post(self._url_sql); on 200 the job is handed to get_run_status
PostSql ==
    /\ Running("run_sql", "post")
    /\ UNCHANGED <<catalog, wiki>>
    /\ \E response \in SqlResponses :
        LET sent == [Authenticated("sql", Top.v.token, Top.cid) EXCEPT
                        !.sql = [sent |-> TRUE,
                                 payload |-> [sql |-> Top.v.command],
                                 status |-> response.status,
                                 job |-> response.id,
                                 polled |-> <<>>]]
        IN  IF response.status = NoResponse
            THEN stack' = Pop /\ ret' = Raise("run_sql", ConnectionError, <<>>) /\ g' = sent
            ELSE IF response.status = HttpOk
            THEN /\ stack' = Append(SetTop([Top EXCEPT !.pc = "after_status"]),
                                    Frame("get_run_status", "login", Len(g.calls) + 1,
                                          get_run_status_locals(response.id)))
                 /\ ret' = NoRet
                 /\ g' = [sent EXCEPT !.calls = Called("get_run_status", response.id),
                                      !.status = NoPolls]
            ELSE stack' = Pop /\ ret' = SqlOutcome(None) /\ g' = sent

\* result = self.get_run_status(id=job) has returned or raised
SqlAfterStatus ==
    /\ Running("run_sql", "after_status") /\ ret.kind /= "none"
    /\ UNCHANGED <<catalog, wiki>>
    /\ stack' = Pop
    /\ ret' = IF ret.kind = "raise" THEN Through("run_sql", ret) ELSE SqlOutcome(ret.val)
    /\ g' = [g EXCEPT !.status = NoPolls,
                      !.sql.polled = IF ret.kind = "value" THEN <<ret.val>> ELSE <<>>]

\* --------------------------------------------------------- get_element_id
LookupResponses ==
    {[status |-> NoResponse, id |-> None], [status |-> HttpOther, id |-> None]}
    \cup [status : {HttpOk}, id : ElementIds \cup {None, <<>>}]

get_element_id_locals(path) ==
    [path |-> NormalizePath(path), token |-> None, result |-> None,
     max_tries |-> MaxTriesLookup]

\* mutation: one pass too many
LookupLoop_OneMore(result, max_tries) == ~Truthy(result) /\ max_tries >= 0

\* while not result and max_tries > 0
LookupLoop(result, max_tries) == ~Truthy(result) /\ max_tries > 0

\* if not result: time.sleep(.5)
LookupNaps(result) == ~Truthy(result)

\* if result: return result / else: raise DremioException(response.text)
LookupOutcome(result) ==
    IF Truthy(result) THEN Value("get_element_id", result)
    ELSE Raise("get_element_id", DremioException, ResponseText)

\* one pass of the lookup loop, and the return when the loop ends
Lookup ==
    /\ Running("get_element_id", "lookup")
    /\ UNCHANGED <<catalog, wiki>>
    /\ \E response \in LookupResponses :
        LET sent == Authenticated("lookup", Top.v.token, Top.cid)
            n == g.lookup.lookups + 1
            max_tries == Top.v.max_tries - 1
            result == IF response.status = HttpOk THEN response.id ELSE Top.v.result
            hasId == response.status = HttpOk /\ Truthy(response.id)
            seen == [sent EXCEPT
                       !.lookup.lookups = n,
                       !.lookupsAll = @ + 1,
                       !.lookup.answered = @ + 1,
                       !.lookup.path = Top.v.path,
                       !.lookup.firstIdAt = IF @ = 0 /\ hasId THEN n ELSE @,
                       !.lookup.firstId =
                           IF g.lookup.firstIdAt = 0 /\ hasId THEN response.id ELSE @,
                       !.lookup.naps = IF LookupNaps(result) THEN @ + 1 ELSE @]
        IN  IF response.status = NoResponse
            THEN /\ stack' = Pop
                 /\ ret' = Raise("get_element_id", ConnectionError, <<>>)
                 /\ g' = [sent EXCEPT !.lookup.lookups = n, !.lookupsAll = @ + 1,
                                      !.lookup.path = Top.v.path]
            ELSE IF LookupLoop(result, max_tries)
            THEN /\ stack' = SetTop([Top EXCEPT !.v.result = result,
                                                !.v.max_tries = max_tries])
                 /\ ret' = NoRet
                 /\ g' = seen
            ELSE /\ stack' = Pop
                 /\ ret' = LookupOutcome(result)
                 /\ g' = [seen EXCEPT !.lookupRets =
                            IF Truthy(result)
                            THEN Append(@, [path |-> Top.v.path, id |-> result])
                            ELSE @]

\* --------------------------------------------------------- create_element
CreateResponses(e) ==
    {[status |-> s, id |-> None] : s \in {NoResponse, HttpOther, HttpConflict}}
    \cup [status : {HttpOk}, id : {IdOf(e), None, <<>>}]

\* the JSON body: a flat name for a space, the split path for a folder
CreatePayload(element_type, element_name_or_path) ==
    IF element_type = "space"
    THEN [entityType |-> element_type, name |-> element_name_or_path]
    ELSE [entityType |-> element_type, path |-> Split(element_name_or_path, "/")]

\* mutation: the conflict branch is missing
CreateResult_NoConflict(response) ==
    IF response.status = HttpOk THEN response.id ELSE None

\* result after the status tests of create_element
CreateResult(response) ==
    IF response.status = HttpOk THEN response.id
    ELSE IF response.status = HttpConflict THEN AlreadyExists
    ELSE None

CreateOutcome(result) ==
    IF Truthy(result) THEN Value("create_element", result)
    ELSE Raise("create_element", DremioException, ResponseText)

\* what a catalog that keeps its contract answers: 200 with an id for a
\* new element, 409 for one that exists
CatalogConforms(e, response) ==
    IF e \in catalog THEN response.status = HttpConflict
    ELSE response.status = HttpOk /\ response.id = IdOf(e)

PostCreate ==
    /\ Running("create_element", "post")
    /\ UNCHANGED wiki
    /\ \E response \in CreateResponses(Top.v.element) :
        LET e == Top.v.element
            sent == [Authenticated("create", Top.v.token, Top.cid) EXCEPT
                        !.create = [sent |-> TRUE,
                                    payload |-> CreatePayload(e.kind, e.name),
                                    existed |-> e \in catalog,
                                    response |-> response,
                                    conform |-> CatalogConforms(e, response)]]
        IN  /\ g' = sent
            /\ stack' = Pop
            /\ catalog' = IF response.status = HttpOk THEN catalog \cup {e} ELSE catalog
            /\ ret' = IF response.status = NoResponse
                      THEN Raise("create_element", ConnectionError, <<>>)
                      ELSE CreateOutcome(CreateResult(response))

\* --------------------------------------------------------- delete_element
DeleteResponses == {[status |-> s] : s \in {NoResponse, HttpOther, HttpNoContent}}

DeleteOutcome(response) ==
    IF response.status = HttpNoContent THEN Value("delete_element", Removed)
    ELSE Raise("delete_element", DremioException, ResponseText)

Delete ==
    /\ Running("delete_element", "delete")
    /\ UNCHANGED wiki
    /\ \E response \in DeleteResponses :
        /\ g' = [Authenticated("delete", Top.v.token, Top.cid) EXCEPT
                    !.deletes = Append(@, Top.v.element_id)]
        /\ stack' = Pop
        /\ catalog' = IF response.status = HttpNoContent
                      THEN {e \in catalog : IdOf(e) /= Top.v.element_id}
                      ELSE catalog
        /\ ret' = IF response.status = NoResponse
                  THEN Raise("delete_element", ConnectionError, <<>>)
                  ELSE DeleteOutcome(response)

\* --------------------------------------------------- create_documentation
Versions == 0..MaxVersion

\* the GET answer: version {} when the body has no version field
DocGetResponses ==
    {[status |-> NoResponse, version |-> {}], [status |-> HttpOther, version |-> {}]}
    \cup [status : {HttpOk}, version : {{}} \cup {{n} : n \in Versions}]

DocPostResponses == {[status |-> s] : s \in {NoResponse, HttpOther, HttpOk}}

\* version = None; on 200: response.json().get('version', None)
DocVersion(response) == IF response.status = HttpOk THEN response.version ELSE {}

\* mutation: `if version:` in place of `if version is not None:`
DocData_Truthy(text, version) ==
    IF version /= {} /\ version /= {0}
    THEN [text |-> text, version |-> CHOOSE n \in version : TRUE]
    ELSE [text |-> text]

\* data = {'text': text}; if version is not None: data['version'] = version
DocData(text, version) ==
    IF version /= {} THEN [text |-> text, version |-> CHOOSE n \in version : TRUE]
    ELSE [text |-> text]

DocOutcome(response) ==
    IF response.status = HttpOk THEN Value("create_documentation", Ok)
    ELSE Raise("create_documentation", DremioException, ResponseText)

\* a wiki that reports what it stores: 200 with the stored version, and no
\* version when it stores none
WikiHonest(element_id, response) ==
    /\ element_id \in DOMAIN wiki
    /\ IF wiki[element_id] = {} THEN DocVersion(response) = {}
       ELSE response.status = HttpOk /\ response.version = wiki[element_id]

\* what the server stores for the element, {} also when it is not followed
Stored(element_id) == IF element_id \in DOMAIN wiki THEN wiki[element_id] ELSE {}

\* the version the server stores after a successful POST
NextVersion(stored) == IF stored = {} THEN {0} ELSE {n + 1 : n \in stored}

create_documentation_locals(element_id, text) ==
    [element_id |-> element_id, text |-> text, token |-> None, data |-> [text |-> text]]

\* recovering version number: the GET, and the body built from its answer
GetDoc ==
    /\ Running("create_documentation", "get")
    /\ UNCHANGED <<catalog, wiki>>
    /\ \E response \in DocGetResponses :
        LET sent == [Authenticated("docget", Top.v.token, Top.cid) EXCEPT
                        !.docGet = [sent |-> TRUE,
                                    element_id |-> Top.v.element_id,
                                    response |-> response,
                                    stored |-> Stored(Top.v.element_id),
                                    honest |-> WikiHonest(Top.v.element_id, response)]]
        IN  /\ g' = sent
            /\ IF response.status = NoResponse
               THEN stack' = Pop /\ ret' = Raise("create_documentation", ConnectionError, <<>>)
               ELSE /\ stack' = SetTop([Top EXCEPT
                                   !.pc = "post",
                                   !.v.data = DocData(Top.v.text, DocVersion(response))])
                    /\ ret' = NoRet

PostDoc ==
    /\ Running("create_documentation", "post")
    /\ UNCHANGED catalog
    /\ \E response \in DocPostResponses :
        /\ response.status = HttpOk =>
               \A n \in Stored(Top.v.element_id) : n < MaxVersion
        /\ g' = [Authenticated("docpost", Top.v.token, Top.cid) EXCEPT
                    !.docPost = [sent |-> TRUE,
                                 element_id |-> Top.v.element_id,
                                 data |-> Top.v.data]]
        /\ stack' = Pop
        /\ wiki' = IF response.status = HttpOk /\ Top.v.element_id \in DOMAIN wiki
                   THEN [wiki EXCEPT ![Top.v.element_id] = NextVersion(@)]
                   ELSE wiki
        /\ ret' = IF response.status = NoResponse
                  THEN Raise("create_documentation", ConnectionError, <<>>)
                  ELSE DocOutcome(response)

\* --------------------------------------------------- create_or_replace_vds
\* f'{qheader} {query}' with qheader = f'CREATE OR REPLACE VDS {vds_path} AS'
VdsCommand(vds_path, query) ==
    <<"CREATE OR REPLACE VDS ">> \o vds_path \o <<" AS", " ">> \o query

\* mutation: anything but COMPLETED counts as a failure
VdsFailed_NotCompleted(result) == result /= COMPLETED

\* if 'FAILED' in result
VdsFailed(result) == Contains(FAILED, result)

\* mutation: the documentation step does not depend on docs
VdsDocuments_Always(docs) == TRUE

\* if docs
VdsDocuments(docs) == Truthy(docs)

\* result = self.run_sql(...) has returned or raised
VdsAfterSql ==
    /\ Running("create_or_replace_vds", "after_sql") /\ ret.kind /= "none"
    /\ UNCHANGED <<catalog, wiki>>
    /\ IF ret.kind = "raise"
       THEN stack' = Pop /\ ret' = Through("create_or_replace_vds", ret) /\ g' = g
       ELSE IF VdsFailed(ret.val)
       THEN /\ stack' = Pop
            /\ ret' = Raise("create_or_replace_vds", DremioException, ret.val)
            /\ g' = g
       ELSE IF VdsDocuments(Top.v.docs)
       THEN /\ stack' = Append(SetTop([Top EXCEPT !.pc = "after_lookup"]),
                               Frame("get_element_id", "login", Len(g.calls) + 1,
                                     get_element_id_locals(Top.v.vds_path)))
            /\ ret' = NoRet
            /\ g' = [g EXCEPT !.calls = Called("get_element_id", Top.v.vds_path),
                              !.lookup = NoLookups]
       ELSE stack' = Pop /\ ret' = Value("create_or_replace_vds", None) /\ g' = g

\* eid = self.get_element_id(path=vds_path) has returned or raised
VdsAfterLookup ==
    /\ Running("create_or_replace_vds", "after_lookup") /\ ret.kind /= "none"
    /\ UNCHANGED <<catalog, wiki>>
    /\ IF ret.kind = "raise"
       THEN /\ stack' = Pop /\ ret' = Through("create_or_replace_vds", ret)
            /\ g' = [g EXCEPT !.lookup = NoLookups]
       ELSE /\ stack' = Append(SetTop([Top EXCEPT !.pc = "after_doc"]),
                               Frame("create_documentation", "login", Len(g.calls) + 1,
                                     create_documentation_locals(ret.val, Top.v.docs)))
            /\ ret' = NoRet
            /\ g' = [g EXCEPT !.calls = Called("create_documentation", ret.val),
                              !.lookup = NoLookups]

\* self.create_documentation(element_id=eid, text=docs) has returned or raised
VdsAfterDoc ==
    /\ Running("create_or_replace_vds", "after_doc") /\ ret.kind /= "none"
    /\ UNCHANGED <<catalog, wiki, g>>
    /\ stack' = Pop
    /\ ret' = IF ret.kind = "raise" THEN Through("create_or_replace_vds", ret)
              ELSE Value("create_or_replace_vds", None)

\* ----------------------------------------------------- refresh_parquet_pds
\* mutation: the test is the other way round
PdsRemovesOld_Inverted(pds_path, element_id_antigo) ==
    Contains(pds_path, element_id_antigo)

\* if pds_path not in element_id_antigo
PdsRemovesOld(pds_path, element_id_antigo) == ~Contains(pds_path, element_id_antigo)

\* mutation: the id of the removed element is kept
PdsFreshId_KeepsOld(element_id_antigo, found) == element_id_antigo

\* element_id = self.get_element_id(path=pds_path) after the removal
PdsFreshId(element_id_antigo, found) == found

\* the JSON body of the refresh POST
PdsPayload(element_id, pds_path) ==
    [entityType |-> "dataset", id |-> element_id, path |-> Split(pds_path, "/"),
     type |-> "PHYSICAL_DATASET", format |-> [type |-> "Parquet"]]

\* element_id_antigo = self.get_element_id(path=pds_path) has returned or raised
PdsAfterLookup1 ==
    /\ Running("refresh_parquet_pds", "after_lookup1") /\ ret.kind /= "none"
    /\ UNCHANGED <<catalog, wiki>>
    /\ IF ret.kind = "raise"
       THEN /\ stack' = Pop /\ ret' = Through("refresh_parquet_pds", ret)
            /\ g' = [g EXCEPT !.lookup = NoLookups]
       ELSE IF PdsRemovesOld(Top.v.pds_path, ret.val)
       THEN /\ stack' = Append(SetTop([Top EXCEPT !.pc = "after_delete",
                                                  !.v.element_id_antigo = ret.val]),
                               Frame("delete_element", "login", Len(g.calls) + 1,
                                     [element_id |-> ret.val, token |-> None]))
            /\ ret' = NoRet
            /\ g' = [g EXCEPT !.calls = Called("delete_element", ret.val),
                              !.lookup = NoLookups]
       ELSE /\ stack' = SetTop([Top EXCEPT !.pc = "login",
                                           !.v.element_id_antigo = ret.val,
                                           !.v.element_id = ret.val])
            /\ ret' = NoRet
            /\ g' = [g EXCEPT !.lookup = NoLookups]

\* mutation: the try/except around delete_element is missing
PdsCatches_Nothing(exc) == FALSE

\* except DremioException
PdsCatches(exc) == exc = DremioException

\* self.delete_element(element_id_antigo) has returned or raised; a
\* DremioException is caught and logged, then the second lookup starts
PdsAfterDelete ==
    /\ Running("refresh_parquet_pds", "after_delete") /\ ret.kind /= "none"
    /\ UNCHANGED <<catalog, wiki>>
    /\ IF ret.kind = "raise" /\ ~PdsCatches(ret.exc)
       THEN stack' = Pop /\ ret' = Through("refresh_parquet_pds", ret) /\ g' = g
       ELSE /\ stack' = Append(SetTop([Top EXCEPT !.pc = "after_lookup2"]),
                               Frame("get_element_id", "login", Len(g.calls) + 1,
                                     get_element_id_locals(Top.v.pds_path)))
            /\ ret' = NoRet
            /\ g' = [g EXCEPT !.calls = Called("get_element_id", Top.v.pds_path),
                              !.lookup = NoLookups,
                              !.caught = IF ret.kind = "raise" THEN Append(@, ret) ELSE @]

\* element_id = self.get_element_id(path=pds_path) has returned or raised
PdsAfterLookup2 ==
    /\ Running("refresh_parquet_pds", "after_lookup2") /\ ret.kind /= "none"
    /\ UNCHANGED <<catalog, wiki>>
    /\ g' = [g EXCEPT !.lookup = NoLookups]
    /\ IF ret.kind = "raise"
       THEN stack' = Pop /\ ret' = Through("refresh_parquet_pds", ret)
       ELSE /\ stack' = SetTop([Top EXCEPT
                           !.pc = "login",
                           !.v.element_id = PdsFreshId(Top.v.element_id_antigo, ret.val)])
            /\ ret' = NoRet

RefreshResponses ==
    {[status |-> NoResponse, id |-> None], [status |-> HttpOther, id |-> None]}
    \cup [status : {HttpOk}, id : ElementIds \cup {None}]

\* on 200 the id of the answer (None when it has none), else DremioException
PdsOutcome(response) ==
    IF response.status = HttpOk THEN Value("refresh_parquet_pds", response.id)
    ELSE Raise("refresh_parquet_pds", DremioException, ResponseText)

\* the refresh POST
PostRefresh ==
    /\ Running("refresh_parquet_pds", "post")
    /\ UNCHANGED <<catalog, wiki>>
    /\ \E response \in RefreshResponses :
        /\ g' = [Authenticated("refresh", Top.v.token, Top.cid) EXCEPT
                    !.refreshes = @ + 1,
                    !.refresh = [sent |-> TRUE,
                                 url |-> UrlRefresh(Quote(Top.v.element_id)),
                                 payload |-> PdsPayload(Top.v.element_id, Top.v.pds_path),
                                 calls |-> g.calls,
                                 lookupRets |-> g.lookupRets,
                                 deletes |-> g.deletes]]
        /\ stack' = Pop
        /\ ret' = IF response.status = NoResponse
                  THEN Raise("refresh_parquet_pds", ConnectionError, <<>>)
                  ELSE PdsOutcome(response)

\* ------------------------------------------------- the script's own calls
Began(op, calls) == [InitG EXCEPT !.op = op, !.calls = calls]

CallGetRunStatus ==
    /\ Idle
    /\ \E id \in JobIds :
        /\ stack' = <<Frame("get_run_status", "login", 1, get_run_status_locals(id))>>
        /\ g' = Began("get_run_status", <<[m |-> "get_run_status", arg |-> id]>>)
    /\ ret' = NoRet
    /\ UNCHANGED <<catalog, wiki>>

CallRunSql ==
    /\ Idle
    /\ \E command \in SqlArgs :
        /\ stack' = <<Frame("run_sql", "login", 1, run_sql_locals(command))>>
        /\ g' = Began("run_sql", <<[m |-> "run_sql", arg |-> command]>>)
    /\ ret' = NoRet
    /\ UNCHANGED <<catalog, wiki>>

CallGetElementId ==
    /\ Idle
    /\ \E path \in PathArgs :
        /\ stack' = <<Frame("get_element_id", "login", 1, get_element_id_locals(path))>>
        /\ g' = Began("get_element_id", <<[m |-> "get_element_id", arg |-> path]>>)
    /\ ret' = NoRet
    /\ UNCHANGED <<catalog, wiki>>

CallCreateElement ==
    /\ Idle
    /\ \E e \in Elements :
        /\ stack' = <<Frame("create_element", "login", 1, [element |-> e, token |-> None])>>
        /\ g' = Began("create_element", <<[m |-> "create_element", arg |-> e]>>)
    /\ ret' = NoRet
    /\ UNCHANGED <<catalog, wiki>>

CallDeleteElement ==
    /\ Idle
    /\ \E id \in ElementIds \cup {IdOf(e) : e \in Elements} :
        /\ stack' = <<Frame("delete_element", "login", 1,
                            [element_id |-> id, token |-> None])>>
        /\ g' = Began("delete_element", <<[m |-> "delete_element", arg |-> id]>>)
    /\ ret' = NoRet
    /\ UNCHANGED <<catalog, wiki>>

CallCreateDocumentation ==
    /\ Idle
    /\ \E id \in ElementIds, text \in DocArgs \ {None} :
        /\ stack' = <<Frame("create_documentation", "login", 1,
                            create_documentation_locals(id, text))>>
        /\ g' = Began("create_documentation",
                      <<[m |-> "create_documentation", arg |-> id]>>)
    /\ ret' = NoRet
    /\ UNCHANGED <<catalog, wiki>>

\* create_or_replace_vds starts by calling run_sql with the statement
CallCreateOrReplaceVds ==
    /\ Idle
    /\ \E vds_path \in VdsPathArgs, query \in SqlArgs, docs \in DocArgs :
        /\ stack' = <<Frame("create_or_replace_vds", "after_sql", 1,
                            [vds_path |-> vds_path, query |-> query, docs |-> docs]),
                      Frame("run_sql", "login", 2,
                            run_sql_locals(VdsCommand(vds_path, query)))>>
        /\ g' = Began("create_or_replace_vds",
                      <<[m |-> "create_or_replace_vds",
                         arg |-> [vds_path |-> vds_path, query |-> query, docs |-> docs]],
                        [m |-> "run_sql", arg |-> VdsCommand(vds_path, query)]>>)
    /\ ret' = NoRet
    /\ UNCHANGED <<catalog, wiki>>

\* refresh_parquet_pds normalises the path and starts with the first lookup
CallRefreshParquetPds ==
    /\ Idle
    /\ \E path \in PathArgs :
        LET pds_path == NormalizePath(path)
        IN  /\ stack' = <<Frame("refresh_parquet_pds", "after_lookup1", 1,
                                [pds_path |-> pds_path, element_id_antigo |-> None,
                                 element_id |-> None, token |-> None]),
                          Frame("get_element_id", "login", 2,
                                get_element_id_locals(pds_path))>>
            /\ g' = Began("refresh_parquet_pds",
                          <<[m |-> "refresh_parquet_pds", arg |-> path],
                            [m |-> "get_element_id", arg |-> pds_path]>>)
    /\ ret' = NoRet
    /\ UNCHANGED <<catalog, wiki>>

Next ==
    \/ CallGetRunStatus
    \/ CallRunSql
    \/ CallGetElementId
    \/ CallCreateElement
    \/ CallDeleteElement
    \/ CallCreateDocumentation
    \/ CallCreateOrReplaceVds
    \/ CallRefreshParquetPds
    \/ Login
    \/ PollStatus
    \/ PostSql
    \/ SqlAfterStatus
    \/ Lookup
    \/ PostCreate
    \/ Delete
    \/ GetDoc
    \/ PostDoc
    \/ VdsAfterSql
    \/ VdsAfterLookup
    \/ VdsAfterDoc
    \/ PdsAfterLookup1
    \/ PdsAfterDelete
    \/ PdsAfterLookup2
    \/ PostRefresh

Spec == Init /\ [][Next]_vars

\* ================================================================ claims
IsAuth(kind) == kind \in {"status", "sql", "lookup", "create", "delete",
                          "docget", "docpost", "refresh"}
CallsOf(m) == {i \in DOMAIN g.calls : g.calls[i].m = m}
Finished(m) == ret.kind /= "none" /\ ret.from = m

\* C1: get_run_status never hands a non-terminal state to its caller: what
\* it returns is COMPLETED, CANCELED or FAILED, and when none of the 300
\* polls reported one of these the call ends with an error.
C1_NeverReturnsNonTerminal ==
    Finished("get_run_status") =>
        /\ ret.kind = "value" => IsTerminal(ret.val)
        /\ (g.status.polls = MaxTriesStatus /\ g.status.firstTermAt = 0)
               => ret.kind = "raise"

\* C2 as claimed: create_or_replace_vds whose job ended CANCELED raises an
\* error whose message contains "CANCELED" and makes no lookup and no
\* documentation request.
VdsEnded(state) ==
    /\ g.op = "create_or_replace_vds"
    /\ g.sql.sent
    /\ g.sql.polled = <<state>>
    /\ ~Running("create_or_replace_vds", "after_sql")

C2_CanceledRaises ==
    (VdsEnded(CANCELED) /\ Idle) =>
        /\ ret.kind = "raise"
        /\ Contains(CANCELED, ret.msg)
        /\ CallsOf("get_element_id") = {}
        /\ ~g.docPost.sent

\* C2 as amended: a job that ended CANCELED does not make
\* create_or_replace_vds raise; the call goes on as for COMPLETED: with docs
\* it looks the element up (and any error then comes from the lookup or the
\* documentation step), without docs it returns normally.  Only a state
\* that contains "FAILED" is raised, with that state as the message.
C2_CanceledProceeds ==
    /\ VdsEnded(CANCELED) =>
          IF VdsDocuments(g.calls[1].arg.docs)
          THEN /\ CallsOf("get_element_id") /= {}
               /\ (Idle /\ ret.kind = "raise") => ret.by /= "create_or_replace_vds"
          ELSE Idle /\ ret = Value("create_or_replace_vds", None)
    /\ VdsEnded(FAILED) =>
          /\ Idle
          /\ ret = Raise("create_or_replace_vds", DremioException, FAILED)
          /\ CallsOf("get_element_id") = {}

C2_Witness ==
    /\ VdsEnded(CANCELED) /\ Idle
    /\ ret = Value("create_or_replace_vds", None)
    /\ g.docPost.sent

\* C3: when the 300th poll of get_run_status is answered with a status
\* other than 200, the call ends with an error, whatever earlier polls
\* answered.
C3_FinalNon200Raises ==
    (Finished("get_run_status") /\ g.status.polls = MaxTriesStatus
        /\ g.status.lastStatus /= HttpOk) => ret.kind = "raise"

\* C4 as claimed: a login request comes between any two authenticated
\* requests.
C4_LoginBeforeEachRequest == g.authSince <= 1

\* C4 as amended: every authenticated request follows a successful login
\* made by the same method invocation and carries the token of that login,
\* which is the latest login; an invocation logs in at most once, so the
\* requests of a polling loop and the GET and POST of create_documentation
\* share one token with no login between them.
C4_OneLoginPerInvocation ==
    /\ (g.requests /= <<>> /\ IsAuth(g.requests[1])) =>
          /\ Truthy(g.lastLogin.tok)
          /\ g.lastAuth.hdr = <<"_dremio">> \o g.lastLogin.tok
          /\ g.lastAuth.cid = g.lastLogin.cid
    /\ g.logins <= Cardinality(DOMAIN g.calls \ CallsOf("create_or_replace_vds"))

C4_Witness ==
    /\ g.op = "get_run_status"
    /\ g.logins = 1
    /\ g.authSince = MaxTriesStatus

\* C5: get_element_id stops at the first answer that is 200 with an id: it
\* has then sent exactly that many lookups and returns that id; it never
\* sends more than 10, and when 10 answers brought no id it ends with an
\* error after exactly 10 lookups.
C5_LookupCount ==
    /\ g.lookup.lookups <= MaxTriesLookup
    /\ g.lookup.firstIdAt /= 0 =>
          /\ g.lookup.lookups = g.lookup.firstIdAt
          /\ ret = Value("get_element_id", g.lookup.firstId)
    /\ (Finished("get_element_id") /\ ret.kind = "value") => g.lookup.firstIdAt /= 0
    /\ (g.lookup.firstIdAt = 0 /\ g.lookup.answered >= MaxTriesLookup) =>
          /\ g.lookup.lookups = MaxTriesLookup
          /\ ret = Raise("get_element_id", DremioException, ResponseText)

C5_Witness ==
    /\ g.lookup.firstIdAt = 5
    /\ g.lookup.naps = 4
    /\ ret.kind = "value" /\ ret.from = "get_element_id"

\* C6: once a poll of get_run_status is answered 200 with COMPLETED,
\* CANCELED or FAILED, and that poll is the k-th, the call has sent exactly k
\* status requests and slept exactly k-1 times, sends no further one, and
\* returns that state.
C6_StopsAtFirstTerminal ==
    g.status.firstTermAt /= 0 =>
        /\ g.status.polls = g.status.firstTermAt
        /\ g.status.sleeps = g.status.firstTermAt - 1
        /\ ret = Value("get_run_status", g.status.firstTermState)

C6_Witness ==
    /\ g.status.firstTermAt = 3
    /\ g.status.firstTermState = COMPLETED
    /\ g.status.sleeps = 2
    /\ ret.kind = "value"

\* C7: against a catalog that answers 200 with an id for a new space or
\* folder and 409 for an existing one, create_element never raises: it
\* returns the id when the element was new and 'already exists' when it
\* was there, however often it is called.
C7_CreateIdempotent ==
    (g.create.sent /\ g.create.conform) =>
        /\ ret.kind = "value" /\ ret.from = "create_element"
        /\ ret.val = IF g.create.existed THEN AlreadyExists ELSE IdOf(g.calls[1].arg)

C7_Witness ==
    /\ g.create.sent /\ g.create.conform /\ g.create.existed
    /\ ret = Value("create_element", AlreadyExists)

\* refresh_parquet_pds: the normalised path and the id of the first lookup
PdsPath == NormalizePath(g.calls[1].arg)
PdsFirstId == g.lookupRets[1].id
PdsLooked == g.op = "refresh_parquet_pds" /\ Len(g.lookupRets) >= 1

\* C8: when the id of the first lookup contains the normalised path,
\* refresh_parquet_pds calls no delete, sends no DELETE, makes no second
\* lookup, and the refresh POST has that id in its payload and, percent
\* encoded, as the last segment of its URL.
C8_ReusesId ==
    (PdsLooked /\ Contains(PdsPath, PdsFirstId)) =>
        /\ g.deletes = <<>>
        /\ CallsOf("delete_element") = {}
        /\ Cardinality(CallsOf("get_element_id")) = 1
        /\ Len(g.lookupRets) = 1
        /\ g.refresh.sent =>
              /\ g.refresh.payload.id = PdsFirstId
              /\ g.refresh.payload.path = Split(PdsPath, "/")
              /\ Head(g.refresh.url) = "/api/v3/catalog/"
              /\ Unquote(Tail(g.refresh.url)) = PdsFirstId

C8_Witness ==
    /\ PdsLooked /\ Contains(PdsPath, PdsFirstId)
    /\ g.refresh.sent
    /\ Tail(g.refresh.url) /= PdsFirstId
    /\ ret.kind = "value"

\* C9: when the id of the first lookup does not contain the normalised
\* path, refresh_parquet_pds calls delete_element once, for that id, then
\* looks the same path up a second time, and only then sends the refresh
\* POST, which carries the id of the second lookup.
C9_DeletesThenLooksUpAgain ==
    (PdsLooked /\ ~Contains(PdsPath, PdsFirstId)) =>
        /\ Cardinality(CallsOf("delete_element")) <= 1
        /\ g.deletes \in {<<>>, <<PdsFirstId>>}
        /\ g.refresh.sent =>
              /\ g.calls = <<[m |-> "refresh_parquet_pds", arg |-> g.calls[1].arg],
                             [m |-> "get_element_id", arg |-> PdsPath],
                             [m |-> "delete_element", arg |-> PdsFirstId],
                             [m |-> "get_element_id", arg |-> PdsPath]>>
              /\ Len(g.lookupRets) = 2
              /\ g.lookupRets[2].path = PdsPath
              /\ g.refresh.payload.id = g.lookupRets[2].id
              /\ Unquote(Tail(g.refresh.url)) = g.lookupRets[2].id

C9_Witness ==
    /\ PdsLooked /\ ~Contains(PdsPath, PdsFirstId)
    /\ g.refresh.sent
    /\ g.deletes = <<PdsFirstId>>
    /\ g.lookupRets[2].id /= PdsFirstId
    /\ g.refresh.payload.id = g.lookupRets[2].id

\* C10: the POST body of create_documentation has a version field exactly
\* when the GET before it was answered 200 with a version, and then that
\* version; so against a wiki that reports what it stores, the POST for an
\* element without documentation has no version and the POST of a later
\* call carries the version stored by the earlier one.
C10_VersionRoundTrip ==
    g.docPost.sent =>
        LET data == g.docPost.data
            has == "version" \in DOMAIN data
            got == g.docGet.response
        IN  /\ has <=> (got.status = HttpOk /\ got.version /= {})
            /\ has => {data.version} = got.version
            /\ data.text \in DocArgs
            /\ g.docGet.honest =>
                  /\ has <=> g.docGet.stored /= {}
                  /\ has => {data.version} = g.docGet.stored

C10_Witness ==
    /\ g.docPost.sent /\ g.docGet.honest
    /\ g.docGet.stored = {0}
    /\ "version" \in DOMAIN g.docPost.data
    /\ g.docPost.data.version = 0

\* C11: run_sql whose submission is answered with a status other than 200
\* raises and no get_run_status is started, so no status request is sent;
\* when the submission is answered 200, what run_sql returns is what
\* get_run_status returned for the submitted job id, and a job that ended
\* FAILED is returned as 'FAILED', not raised.
C11_RunSqlOutcome ==
    g.sql.sent =>
        /\ g.sql.status /= HttpOk =>
              /\ CallsOf("get_run_status") = {}
              /\ g.status.polls = 0
              /\ ret.kind = "raise" /\ ret.by = "run_sql"
        /\ CallsOf("get_run_status") /= {} =>
              /\ g.sql.status = HttpOk
              /\ \A i \in CallsOf("get_run_status") : g.calls[i].arg = g.sql.job
        /\ Finished("run_sql") =>
              /\ ret.kind = "value" => g.sql.polled = <<ret.val>>
              /\ g.sql.polled /= <<>> => ret = Value("run_sql", g.sql.polled[1])

C11_Witness ==
    /\ g.op = "run_sql" /\ g.sql.sent
    /\ g.sql.polled = <<FAILED>>
    /\ ret = Value("run_sql", FAILED)

\* C12: get_token returns a value exactly when the login answer is 200
\* with a non-empty token, and the value is that token; for any other
\* answer it raises.
C12_TokenOnlyOn200 ==
    g.logins > 0 =>
        LET r == g.lastLogin.response
            o == g.lastLogin.outcome
        IN  IF r.status = HttpOk /\ r.token /= None /\ r.token /= <<>>
            THEN o = [kind |-> "value", from |-> "get_token", val |-> r.token]
            ELSE o.kind = "raise" /\ o.by = "get_token"

C12_Witness ==
    /\ g.logins > 0
    /\ g.lastLogin.response = [status |-> HttpOk, token |-> <<>>]
    /\ g.lastLogin.outcome.kind = "raise"
    /\ Idle /\ ret.kind = "raise"

\* C13: an exception raised by a step of an operation goes to the caller
\* at once: while it is pending no request is sent, every method on the
\* stack is left, and the script receives that same exception.  The one
\* exception that is caught and dropped is a DremioException of
\* delete_element inside refresh_parquet_pds.
C13_ErrorsPropagate ==
    /\ [](\A i \in DOMAIN g.caught :
              /\ g.op = "refresh_parquet_pds"
              /\ g.caught[i].from = "delete_element"
              /\ g.caught[i].exc = DremioException)
    /\ [][(ret.kind = "raise" /\ ~Idle) =>
             IF Running("refresh_parquet_pds", "after_delete") /\ ret.exc = DremioException
             THEN /\ g'.caught = Append(g.caught, ret)
                  /\ g'.logins = g.logins /\ g'.authSince = g.authSince
             ELSE /\ stack' = Pop
                  /\ ret' = [ret EXCEPT !.from = Top.m]
                  /\ g'.caught = g.caught
                  /\ g'.logins = g.logins /\ g'.authSince = g.authSince
                  /\ g'.requests = g.requests]_vars

C13_Witness ==
    /\ Idle /\ g.op = "create_or_replace_vds"
    /\ ret.kind = "raise"
    /\ ret.by = "get_run_status" /\ ret.from = "create_or_replace_vds"

\* C14: create_or_replace_vds, once run_sql has returned a state: a state
\* that contains 'FAILED' is raised and no lookup and no documentation call
\* is made; otherwise without docs (None or empty) the call returns with no
\* lookup and no documentation call; with docs there is exactly one
\* get_element_id, for the VDS path, and, once it has returned an id, one
\* create_documentation for that id.
VdsDecided == /\ g.op = "create_or_replace_vds"
              /\ g.sql.sent /\ g.sql.polled /= <<>>
              /\ ~Running("create_or_replace_vds", "after_sql")

C14_VdsSteps ==
    VdsDecided =>
        LET state == g.sql.polled[1]
            arg == g.calls[1].arg
            lookups == CallsOf("get_element_id")
            docs == CallsOf("create_documentation")
        IN  IF Contains(FAILED, state)
            THEN /\ Idle /\ ret = Raise("create_or_replace_vds", DremioException, state)
                 /\ lookups = {} /\ docs = {} /\ g.lookupsAll = 0
                 /\ ~g.docGet.sent /\ ~g.docPost.sent
            ELSE IF arg.docs = None \/ arg.docs = <<>>
            THEN /\ Idle /\ ret = Value("create_or_replace_vds", None)
                 /\ lookups = {} /\ docs = {} /\ g.lookupsAll = 0
                 /\ ~g.docGet.sent /\ ~g.docPost.sent
            ELSE /\ lookups = {4}
                 /\ g.calls[4].arg = arg.vds_path
                 /\ docs \subseteq {5}
                 /\ docs = {5} <=> (g.lookupRets /= <<>>
                                     /\ ~Running("create_or_replace_vds", "after_lookup"))
                 /\ docs = {5} => g.calls[5].arg = g.lookupRets[1].id
                 /\ g.docPost.sent =>
                       /\ g.docPost.element_id = g.lookupRets[1].id
                       /\ g.docPost.data.text = arg.docs
                 /\ (Idle /\ ret.kind = "value") => g.docPost.sent

C14_Witness ==
    /\ VdsDecided /\ Idle
    /\ g.sql.polled = <<COMPLETED>>
    /\ g.calls[1].arg.docs = <<"m","d">>
    /\ g.docPost.sent
    /\ ret = Value("create_or_replace_vds", None)

\* C15: a documentation POST of create_or_replace_vds is sent only when
\* the state the poller last saw for the job is COMPLETED, CANCELED or
\* FAILED.
C15_DocsAfterTerminal ==
    (g.op = "create_or_replace_vds" /\ g.docPost.sent) =>
        /\ g.sql.polled /= <<>>
        /\ IsTerminal(g.sql.polled[1])

\* the steps of the client, as opposed to the script's calls
Step ==
    \/ Login \/ PollStatus \/ PostSql \/ SqlAfterStatus \/ Lookup \/ PostCreate
    \/ Delete \/ GetDoc \/ PostDoc \/ VdsAfterSql \/ VdsAfterLookup \/ VdsAfterDoc
    \/ PdsAfterLookup1 \/ PdsAfterDelete \/ PdsAfterLookup2 \/ PostRefresh

\* the largest number of steps a frame can still take, the methods it has
\* yet to call included
FrameRank(f) ==
    CASE f.m = "get_run_status" ->
            IF f.pc = "login" THEN 1 + MaxTriesStatus ELSE f.v.max_tries
      [] f.m = "get_element_id" ->
            IF f.pc = "login" THEN 1 + MaxTriesLookup ELSE f.v.max_tries
      [] f.m \in {"create_element", "delete_element"} ->
            IF f.pc = "login" THEN 2 ELSE 1
      [] f.m = "create_documentation" ->
            IF f.pc = "login" THEN 3 ELSE IF f.pc = "get" THEN 2 ELSE 1
      [] f.m = "run_sql" ->
            IF f.pc = "login" THEN 4 + MaxTriesStatus
            ELSE IF f.pc = "post" THEN 3 + MaxTriesStatus ELSE 1
      [] f.m = "create_or_replace_vds" ->
            IF f.pc = "after_sql" THEN 7 + MaxTriesLookup
            ELSE IF f.pc = "after_lookup" THEN 5 ELSE 1
      [] f.m = "refresh_parquet_pds" ->
            IF f.pc = "after_lookup1" THEN 8 + MaxTriesLookup
            ELSE IF f.pc = "after_delete" THEN 5 + MaxTriesLookup
            ELSE IF f.pc = "after_lookup2" THEN 3
            ELSE IF f.pc = "login" THEN 2 ELSE 1

RECURSIVE RankOf(_)
RankOf(s) == IF s = <<>> THEN 0 ELSE FrameRank(Head(s)) + RankOf(Tail(s))

\* C16: every public operation ends: while one runs a step is always
\* possible and each step lowers a bound on the steps that remain; and the
\* requests are bounded: get_run_status sends at most 1 login and 300
\* status requests, get_element_id at most 1 login and 10 lookups,
\* refresh_parquet_pds at most 20 lookups, 1 DELETE and 1 refresh POST.
C16_Terminates ==
    /\ [](/\ ~Idle => ENABLED Step
          /\ RankOf(stack) >= 0
          /\ g.status.polls <= MaxTriesStatus
          /\ g.lookup.lookups <= MaxTriesLookup
          /\ g.op = "get_run_status" => g.logins <= 1 /\ g.lookupsAll = 0
          /\ g.op = "get_element_id" => g.logins <= 1 /\ g.lookupsAll <= MaxTriesLookup
          /\ g.op = "refresh_parquet_pds" =>
                /\ g.lookupsAll <= 2 * MaxTriesLookup
                /\ Len(g.deletes) <= 1
                /\ g.refreshes <= 1)
    /\ [][~Idle => RankOf(stack') < RankOf(stack)]_vars

C16_Witness ==
    /\ Idle /\ g.op = "refresh_parquet_pds"
    /\ g.lookupsAll = 2 * MaxTriesLookup
    /\ Len(g.deletes) = 1
    /\ g.refreshes = 1

\* C17: an authenticated request is sent only with the token of a login
\* that the same method invocation made and that was answered 200 with a
\* non-empty token; after a login that failed no request is sent by that
\* invocation: it has left the stack and the failed login is still the
\* latest request.
C17_NoRequestWithoutLogin ==
    /\ (g.requests /= <<>> /\ IsAuth(g.requests[1])) =>
          /\ g.lastLogin.outcome.kind = "value"
          /\ g.lastLogin.response.status = HttpOk
          /\ Truthy(g.lastLogin.response.token)
          /\ g.lastAuth.hdr = <<"_dremio">> \o g.lastLogin.response.token
          /\ g.lastAuth.cid = g.lastLogin.cid
    /\ (g.logins > 0 /\ g.lastLogin.outcome.kind = "raise") =>
          /\ g.requests = <<"login">>
          /\ g.lastAuth.cid /= g.lastLogin.cid
          /\ \A i \in DOMAIN stack : stack[i].cid /= g.lastLogin.cid
          /\ g.calls[g.lastLogin.cid].m = "delete_element" => g.deletes = <<>>
          /\ g.calls[g.lastLogin.cid].m = "create_element" => ~g.create.sent
          /\ g.calls[g.lastLogin.cid].m = "run_sql" => ~g.sql.sent
          /\ g.calls[g.lastLogin.cid].m = "get_run_status" => g.status.polls = 0
          /\ g.calls[g.lastLogin.cid].m = "get_element_id" => g.lookup.lookups = 0
          /\ g.calls[g.lastLogin.cid].m = "create_documentation" =>
                ~g.docGet.sent /\ ~g.docPost.sent

C17_Witness ==
    /\ Idle /\ g.op = "delete_element"
    /\ g.lastLogin.outcome.kind = "raise"
    /\ g.deletes = <<>>
    /\ ret.kind = "raise" /\ ret.from = "delete_element"

\* C18: refresh_parquet_pds whose first id does not contain the path: a
\* DremioException of delete_element (DELETE answered with a status other
\* than 204, or the login inside delete_element answered without a token)
\* never ends the operation: the second lookup of the same path is
\* started; and when that lookup returns the id of the first, the refresh
\* POST carries the id of the element that was not removed.
C18_DeleteFailureIgnored ==
    (PdsLooked /\ ~Contains(PdsPath, PdsFirstId)) =>
        /\ (ret.kind = "raise" /\ ret.exc = DremioException
              /\ (ret.by = "delete_element"
                   \/ (ret.by = "get_token" /\ g.lastLogin.cid = 3)))
              => (Running("refresh_parquet_pds", "after_delete") /\ g.caught = <<>>)
        /\ g.caught /= <<>> =>
              /\ Len(g.caught) = 1
              /\ Len(g.calls) = 4
              /\ g.calls[4] = [m |-> "get_element_id", arg |-> PdsPath]
        /\ (g.refresh.sent /\ g.caught /= <<>> /\ g.lookupRets[2].id = PdsFirstId) =>
              /\ g.refresh.payload.id = PdsFirstId
              /\ Unquote(Tail(g.refresh.url)) = PdsFirstId

\* C18 as stated: in that branch a failure of the delete step, whatever
\* the reason, never ends the operation: the second lookup is started, and
\* a second lookup that returns the first id makes the refresh POST carry
\* that id.
C18_AnyDeleteFailureIgnored ==
    (PdsLooked /\ ~Contains(PdsPath, PdsFirstId)) =>
        /\ (ret.kind = "raise"
              /\ (ret.by = "delete_element"
                   \/ (ret.by = "get_token" /\ g.lastLogin.cid = 3)))
              => (Running("refresh_parquet_pds", "after_delete") /\ g.caught = <<>>)
        /\ g.caught /= <<>> =>
              /\ Len(g.calls) = 4
              /\ g.calls[4] = [m |-> "get_element_id", arg |-> PdsPath]
        /\ (g.refresh.sent /\ g.caught /= <<>> /\ g.lookupRets[2].id = PdsFirstId) =>
              g.refresh.payload.id = PdsFirstId

C18_Witness ==
    /\ PdsLooked /\ ~Contains(PdsPath, PdsFirstId)
    /\ g.refresh.sent
    /\ g.caught /= <<>> /\ g.caught[1].by = "get_token"
    /\ g.deletes = <<>>
    /\ g.lookupRets[2].id = PdsFirstId
    /\ g.refresh.payload.id = PdsFirstId

====
